---- MODULE Spec2Model ----
(***************************************************************************)
(* Model of the mail scheduler of the monthly-report web application:     *)
(* SchedulerService (scheduler.py), the Gmail mail service it drives       *)
(* (email_service_oauth.py) and the Staff / MonthlyReport tables it reads  *)
(* (main.py).                                                              *)
(***************************************************************************)
EXTENDS Integers, Sequences, FiniteSets, TLC

VARIABLES
    now,        \* the local clock: [year, month, day, hour, minute]
    daysLeft,   \* days the clock may still advance (bound of the model)
    started,    \* the scheduler: "created", "running" or "stopped"
    registry,   \* ids of the jobs held by the scheduler
    status,     \* per job id: "Idle", "Due" or "Running"
    staff,      \* the Staff table, rows in primary-key order
    reports,    \* the MonthlyReport table
    service,    \* email_service.service is set (Gmail API initialised)
    lastRun,    \* what the most recent job body did
    session,    \* the Store session of the most recent job body: "none", "open", "closed"
    users,      \* the AdminUser table
    response    \* the most recent HTTP response, with its request: [op, code, ok, data, request]

vars == <<now, daysLeft, started, registry, status, staff, reports, service, lastRun,
         session, users, response>>

(***************************************************************************)
(* Bounds of the model.                                                    *)
(***************************************************************************)
MaxStaff == 2
MaxDays == 2
LiveDays == 400

NoValue == "none"

(***************************************************************************)
(* Strings are sequences of one-character strings, so that formatting,     *)
(* splitting and parsing are computed and not assumed.                     *)
(***************************************************************************)
DigitChars == <<"0", "1", "2", "3", "4", "5", "6", "7", "8", "9">>

IsDigit(c) == \E i \in 1..10 : DigitChars[i] = c

DigitValue(c) == (CHOOSE i \in 1..10 : DigitChars[i] = c) - 1

DigitChar(n) == DigitChars[n + 1]

\* str.split('.') of Python: the parts between the dots, empty parts kept.
RECURSIVE SplitFrom(_, _, _, _)
SplitFrom(s, i, cur, acc) ==
    IF i > Len(s) THEN Append(acc, cur)
    ELSE IF s[i] = "." THEN SplitFrom(s, i + 1, <<>>, Append(acc, cur))
    ELSE SplitFrom(s, i + 1, Append(cur, s[i]), acc)

Split(s) == SplitFrom(s, 1, <<>>, <<>>)

\* int(text) of Python on the characters modelled: a non-empty run of
\* decimal digits parses (leading zeros allowed), anything else raises
\* ValueError.
CanParseInt(p) == Len(p) > 0 /\ \A i \in 1..Len(p) : IsDigit(p[i])

RECURSIVE ParseFrom(_, _, _)
ParseFrom(p, i, acc) ==
    IF i > Len(p) THEN acc ELSE ParseFrom(p, i + 1, acc * 10 + DigitValue(p[i]))

ParseInt(p) == ParseFrom(p, 1, 0)

\* A number as decimal digits, zero-padded to at least `width` characters
\* (the %Y and %m fields of strftime).
RECURSIVE Digits(_)
Digits(n) == IF n < 10 THEN <<DigitChar(n)>> ELSE Append(Digits(n \div 10), DigitChar(n % 10))

RECURSIVE PadTo(_, _)
PadTo(s, width) == IF Len(s) >= width THEN s ELSE PadTo(<<"0">> \o s, width)

YearWidth == 4
MonthWidth == 2

\* date.strftime("%Y-%m")
StrftimeYm(d) == PadTo(Digits(d.year), YearWidth) \o <<"-">> \o PadTo(Digits(d.month), MonthWidth)

(***************************************************************************)
(* The Gregorian calendar of datetime.date.                                *)
(***************************************************************************)
IsLeap(y) == (y % 4 = 0 /\ y % 100 # 0) \/ y % 400 = 0

DaysInMonth(y, m) ==
    IF m = 2 THEN (IF IsLeap(y) THEN 29 ELSE 28)
    ELSE IF m \in {4, 6, 9, 11} THEN 30 ELSE 31

Date(y, m, d) == [year |-> y, month |-> m, day |-> d]

\* d - relativedelta(days=1)
MinusOneDay(d) ==
    IF d.day > 1 THEN Date(d.year, d.month, d.day - 1)
    ELSE IF d.month > 1 THEN Date(d.year, d.month - 1, DaysInMonth(d.year, d.month - 1))
    ELSE Date(d.year - 1, 12, 31)

PlusOneDay(d) ==
    IF d.day < DaysInMonth(d.year, d.month) THEN Date(d.year, d.month, d.day + 1)
    ELSE IF d.month < 12 THEN Date(d.year, d.month + 1, 1)
    ELSE Date(d.year + 1, 1, 1)

\* date.replace(day=1)
ReplaceDay1(d) == Date(d.year, d.month, 1)

\* The month number lowered by one, the year left alone.
LastMonthStrNoWrap(today) == StrftimeYm(Date(today.year, today.month - 1, 1))

\* scheduler.py 100-102: the key of last calendar month.
LastMonthStr(today) == StrftimeYm(MinusOneDay(ReplaceDay1(today)))

(***************************************************************************)
(* The tables of main.py.  An absent (NULL) email is NoValue; an absent    *)
(* birthday is the empty string, which the code treats the same way.       *)
(***************************************************************************)
Row(id, name, email, birthday) ==
    [id |-> id, name |-> name, email |-> email, birthday |-> birthday]

\* Rows the staff file may hold (main.py 334-341, 2214-2221).
StaffPool == {
    Row(1, "amy", "amy@x", <<"1","9","7","0",".","1","2",".","2","5">>),
    Row(2, "bob", "bob@x", <<"1","9","8","0",".","1",".","1">>),
    Row(3, "cat", "",      <<"1","9","7","0",".","1","2",".","2","5">>),
    Row(4, "dan", "dan@x", <<"1","9","8","5",".","1","2">>),
    Row(5, "eve", "eve@x", <<"1","9","7","5",".","1","2",".","2","x">>),
    Row(6, "fay", "fay@x", <<"1","9","9","0",".","0","2",".","0","1">>),
    Row(7, "gus", NoValue, <<>>),
    Row(8, "hal", "hal@x", <<"1","9","9","0",".","1","2",".","2","5">>) }

PoolRow(i) == CHOOSE r \in StaffPool : r.id = i

Min(S) == CHOOSE x \in S : \A y \in S : x <= y

RECURSIVE RowsOf(_)
RowsOf(ids) ==
    IF ids = {} THEN <<>> ELSE <<PoolRow(Min(ids))>> \o RowsOf(ids \ {Min(ids)})

StaffTables ==
    { RowsOf(ids) : ids \in { S \in SUBSET { r.id : r \in StaffPool } : Cardinality(S) <= MaxStaff } }

\* Python truth of a nullable string column.
Truthy(x) == x # NoValue /\ x # ""

Report(month) == [month |-> month, quotes |-> "q", focus |-> "f"]

Key_2025_12 == <<"2","0","2","5","-","1","2">>
Key_2026_01 == <<"2","0","2","6","-","0","1">>
Key_2026_1 == <<"2","0","2","6","-","1">>

\* Contents of the MonthlyReport table: empty, the row init_db seeds
\* (main.py 270-271) with a row create_report added, and a row whose month
\* string create_report took without a leading zero.
ReportStores == {
    {},
    {Report(Key_2025_12), Report(Key_2026_01)},
    {Report(Key_2026_1)} }

\* The query without its filter: the first report, whatever its month.
FindReportAny(rs, month_str) == rs

\* db.query(MonthlyReport).filter(MonthlyReport.month == month_str).first()
FindReport(rs, month_str) == { r \in rs : r.month = month_str }

(***************************************************************************)
(* The mail service (email_service_oauth.py).  sendFails is the set of     *)
(* addresses for which the Gmail API call raises; renderFails the set of   *)
(* names for which rendering the template raises.                          *)
(***************************************************************************)
StaffData(s) == [name |-> s.name, email |-> s.email]

\* send_email without its test of self.service.
SendEmailNoServiceTest(to_email, svc, sendFails) ==
    IF ~Truthy(to_email) THEN FALSE
    ELSE to_email \notin sendFails

\* send_email: TRUE iff the message was delivered.
SendEmail(to_email, svc, sendFails) ==
    IF ~svc THEN FALSE
    ELSE IF ~Truthy(to_email) THEN FALSE
    ELSE to_email \notin sendFails

NoSends == [attempted |-> <<>>, delivered |-> <<>>, success_count |-> 0, raised |-> NoValue]

\* The loop of send_holiday_card / send_monthly_report over staff_list[i..]:
\* render, then send_email, then count.  The template call is outside any
\* try: when it raises the loop ends and the exception leaves the method
\* (raised says what raised).
RECURSIVE BroadcastFrom(_, _, _, _, _, _)
BroadcastFrom(staff_list, i, acc, svc, sendFails, renderFails) ==
    IF i > Len(staff_list) THEN acc
    ELSE IF staff_list[i].name \in renderFails THEN [acc EXCEPT !.raised = "render"]
    ELSE LET ok == SendEmail(staff_list[i].email, svc, sendFails)
             next == [attempted |-> Append(acc.attempted, staff_list[i].email),
                      delivered |-> IF ok THEN Append(acc.delivered, staff_list[i].email)
                                    ELSE acc.delivered,
                      success_count |-> IF ok THEN acc.success_count + 1 ELSE acc.success_count,
                      raised |-> NoValue]
         IN BroadcastFrom(staff_list, i + 1, next, svc, sendFails, renderFails)

\* send_holiday_card counting every send, delivered or not.
SendHolidayCardCountsAll(staff_list, svc, sendFails, renderFails) ==
    LET b == BroadcastFrom(staff_list, 1, NoSends, svc, sendFails, renderFails)
    IN  [b EXCEPT !.success_count = Len(b.attempted)]

\* send_holiday_card returning after its first recipient.
SendHolidayCardFirstOnly(staff_list, svc, sendFails, renderFails) ==
    IF staff_list = <<>> THEN NoSends
    ELSE BroadcastFrom(<<Head(staff_list)>>, 1, NoSends, svc, sendFails, renderFails)

SendHolidayCard(staff_list, svc, sendFails, renderFails) ==
    BroadcastFrom(staff_list, 1, NoSends, svc, sendFails, renderFails)

\* send_monthly_report over a send_email that lets the Gmail error out.
RECURSIVE BroadcastUncaughtFrom(_, _, _, _, _, _)
BroadcastUncaughtFrom(staff_list, i, acc, svc, sendFails, renderFails) ==
    IF i > Len(staff_list) THEN acc
    ELSE IF staff_list[i].name \in renderFails THEN [acc EXCEPT !.raised = "render"]
    ELSE IF svc /\ staff_list[i].email \in sendFails
    THEN [acc EXCEPT !.attempted = Append(acc.attempted, staff_list[i].email), !.raised = "send"]
    ELSE BroadcastUncaughtFrom(staff_list, i + 1,
             BroadcastFrom(<<staff_list[i]>>, 1, acc, svc, sendFails, renderFails),
             svc, sendFails, renderFails)

SendMonthlyReportUncaught(staff_list, svc, sendFails, renderFails) ==
    BroadcastUncaughtFrom(staff_list, 1, NoSends, svc, sendFails, renderFails)

SendMonthlyReport(staff_list, svc, sendFails, renderFails) ==
    BroadcastFrom(staff_list, 1, NoSends, svc, sendFails, renderFails)

\* send_birthday_card: render, then send_email.
SendBirthdayCard(sd, svc, sendFails, renderFails) ==
    IF sd.name \in renderFails
    THEN [raised |-> "render", called |-> FALSE, ok |-> FALSE]
    ELSE [raised |-> NoValue, called |-> TRUE, ok |-> SendEmail(sd.email, svc, sendFails)]

(***************************************************************************)
(* The job bodies (scheduler.py).  Each yields the record of the run:      *)
(*   outcome    "ok", "no_report", "not_today", "error" (an exception      *)
(*              caught and logged by the body) or "raised" (the exception  *)
(*              left the body)                                             *)
(*   error      what raised: "store", "render", "resolver", or NoValue     *)
(*   today      date.today() as the body read it                           *)
(*   month      the report key looked up, or the empty string              *)
(*   scanned    the Staff rows the body read                               *)
(*   recipients the staff_data handed to the mail service                  *)
(*   attempted  the addresses send_email was called with, in order         *)
(*   delivered  the addresses send_email returned True for                 *)
(*   summary    the numbers of the closing log line, in order (empty when  *)
(*              the line was not reached)                                  *)
(***************************************************************************)
Run(job, outcome, error, today, month, scanned, sends, summary) ==
    [job |-> job, outcome |-> outcome, error |-> error, today |-> today, month |-> month,
     scanned |-> scanned, recipients |-> sends.recipients, attempted |-> sends.attempted,
     delivered |-> sends.delivered, summary |-> summary]

Nothing == [recipients |-> <<>>, attempted |-> <<>>, delivered |-> <<>>]

Sends(recipients, b) ==
    [recipients |-> recipients, attempted |-> b.attempted, delivered |-> b.delivered]

NoRun == Run(NoValue, NoValue, NoValue, Date(0, 0, 0), <<>>, <<>>, Nothing, <<>>)

\* The comprehension without its "if s.email".
WithEmailAll(rows) == [i \in 1..Len(rows) |-> StaffData(rows[i])]

\* [{"name": s.name, "email": s.email} for s in staff_list if s.email]
RECURSIVE WithEmail(_)
WithEmail(rows) ==
    IF rows = <<>> THEN <<>>
    ELSE IF Truthy(Head(rows).email) THEN <<StaffData(Head(rows))>> \o WithEmail(Tail(rows))
    ELSE WithEmail(Tail(rows))

\* The except clause that wraps every job body: the error is logged and
\* the body returns normally.
CaughtByBody == "error"

send_monthly_reports(today, rows, rs, svc, storeOk, sendFails, renderFails) ==
    LET month_str == LastMonthStr(today)
        staff_data == WithEmail(rows)
        b == SendMonthlyReport(staff_data, svc, sendFails, renderFails)
    IN  IF ~storeOk
        THEN Run("monthly_report", CaughtByBody, "store", today, month_str, <<>>, Nothing, <<>>)
        ELSE IF FindReport(rs, month_str) = {}
        THEN Run("monthly_report", "no_report", NoValue, today, month_str, <<>>, Nothing, <<>>)
        ELSE IF b.raised # NoValue
        THEN Run("monthly_report", CaughtByBody, b.raised, today, month_str, rows,
                 Sends(staff_data, b), <<>>)
        ELSE Run("monthly_report", "ok", NoValue, today, month_str, rows,
                 Sends(staff_data, b), <<b.success_count, Len(staff_data)>>)

_send_holiday_cards(job, today, rows, svc, storeOk, sendFails, renderFails) ==
    LET staff_data == WithEmail(rows)
        b == SendHolidayCard(staff_data, svc, sendFails, renderFails)
    IN  IF ~storeOk
        THEN Run(job, CaughtByBody, "store", today, <<>>, <<>>, Nothing, <<>>)
        ELSE IF b.raised # NoValue
        THEN Run(job, CaughtByBody, b.raised, today, <<>>, rows, Sends(staff_data, b), <<>>)
        ELSE Run(job, "ok", NoValue, today, <<>>, rows, Sends(staff_data, b),
                 <<b.success_count, Len(staff_data)>>)

\* The test with "or" for "and" at line 165.
BirthdayTestEither(s, today) ==
    IF s.birthday = <<>> \/ ~Truthy(s.email) THEN "skip"
    ELSE LET parts == Split(s.birthday)
         IN  IF Len(parts) < 3 THEN "other"
             ELSE IF ~CanParseInt(parts[2]) \/ ~CanParseInt(parts[3]) THEN "error"
             ELSE IF ParseInt(parts[2]) = today.month \/ ParseInt(parts[3]) = today.day
             THEN "match" ELSE "other"

\* The test letting a birthday of two parts match on its month alone.
BirthdayTestMonthOnly(s, today) ==
    IF s.birthday = <<>> \/ ~Truthy(s.email) THEN "skip"
    ELSE LET parts == Split(s.birthday)
         IN  IF Len(parts) < 2 THEN "other"
             ELSE IF Len(parts) = 2
             THEN (IF CanParseInt(parts[2]) /\ ParseInt(parts[2]) = today.month
                   THEN "match" ELSE "other")
             ELSE IF ~CanParseInt(parts[2]) \/ ~CanParseInt(parts[3]) THEN "error"
             ELSE IF ParseInt(parts[2]) = today.month /\ ParseInt(parts[3]) = today.day
             THEN "match" ELSE "other"

\* The test of one row in check_and_send_birthday_cards (lines 154-165):
\* "skip", "error" (int() raised, caught at 174), "other" or "match".
BirthdayTest(s, today) ==
    IF s.birthday = <<>> \/ ~Truthy(s.email) THEN "skip"
    ELSE LET parts == Split(s.birthday)
         IN  IF Len(parts) < 3 THEN "other"
             ELSE IF ~CanParseInt(parts[2]) \/ ~CanParseInt(parts[3]) THEN "error"
             ELSE IF ParseInt(parts[2]) = today.month /\ ParseInt(parts[3]) = today.day
             THEN "match" ELSE "other"

\* The loop with its try around the whole loop: the first row whose
\* birthday does not parse ends it.
RECURSIVE BirthdayLoopOuterTry(_, _, _, _, _, _, _)
BirthdayLoopOuterTry(rows, i, acc, today, svc, sendFails, renderFails) ==
    IF i > Len(rows) THEN acc
    ELSE IF BirthdayTest(rows[i], today) = "error" THEN acc
    ELSE IF BirthdayTest(rows[i], today) # "match"
    THEN BirthdayLoopOuterTry(rows, i + 1, acc, today, svc, sendFails, renderFails)
    ELSE LET r == SendBirthdayCard(StaffData(rows[i]), svc, sendFails, renderFails)
             next == [recipients |-> Append(acc.recipients, StaffData(rows[i])),
                      attempted |-> IF r.called THEN Append(acc.attempted, rows[i].email)
                                    ELSE acc.attempted,
                      delivered |-> IF r.ok THEN Append(acc.delivered, rows[i].email)
                                    ELSE acc.delivered,
                      birthday_count |-> IF r.ok THEN acc.birthday_count + 1
                                         ELSE acc.birthday_count]
         IN BirthdayLoopOuterTry(rows, i + 1, next, today, svc, sendFails, renderFails)

\* The loop over all_staff from row i on (lines 153-176); an exception of
\* one row is caught inside the loop and the loop goes on.
RECURSIVE BirthdayLoop(_, _, _, _, _, _, _)
BirthdayLoop(rows, i, acc, today, svc, sendFails, renderFails) ==
    IF i > Len(rows) THEN acc
    ELSE IF BirthdayTest(rows[i], today) # "match"
    THEN BirthdayLoop(rows, i + 1, acc, today, svc, sendFails, renderFails)
    ELSE LET r == SendBirthdayCard(StaffData(rows[i]), svc, sendFails, renderFails)
             next == [recipients |-> Append(acc.recipients, StaffData(rows[i])),
                      attempted |-> IF r.called THEN Append(acc.attempted, rows[i].email)
                                    ELSE acc.attempted,
                      delivered |-> IF r.ok THEN Append(acc.delivered, rows[i].email)
                                    ELSE acc.delivered,
                      birthday_count |-> IF r.ok THEN acc.birthday_count + 1
                                         ELSE acc.birthday_count]
         IN BirthdayLoop(rows, i + 1, next, today, svc, sendFails, renderFails)

check_and_send_birthday_cards(today, rows, svc, storeOk, sendFails, renderFails) ==
    LET b == BirthdayLoop(rows, 1,
                 [recipients |-> <<>>, attempted |-> <<>>, delivered |-> <<>>, birthday_count |-> 0],
                 today, svc, sendFails, renderFails)
    IN  IF ~storeOk
        THEN Run("birthday_check", CaughtByBody, "store", today, <<>>, <<>>, Nothing, <<>>)
        ELSE Run("birthday_check", "ok", NoValue, today, <<>>, rows, Sends(b.recipients, b),
                 <<b.birthday_count>>)

(***************************************************************************)
(* The Calendar Resolver: Converter.Solar2Lunar of the lunarcalendar       *)
(* package, as called at scheduler.py 204.  The package is a table-driven  *)
(* conversion; the table below holds the days around the lunar new years   *)
(* of the years modelled, every other day resolves to a lunar day that is  *)
(* not the first of the first month.                                       *)
(***************************************************************************)
LunarNewYearDays == { Date(2024, 2, 10), Date(2025, 1, 29), Date(2026, 2, 17), Date(2027, 2, 6) }

Solar2Lunar(d) ==
    IF d \in LunarNewYearDays THEN [month |-> 1, day |-> 1]
    ELSE IF MinusOneDay(d) \in LunarNewYearDays THEN [month |-> 1, day |-> 2]
    ELSE IF PlusOneDay(d) \in LunarNewYearDays THEN [month |-> 12, day |-> 29]
    ELSE [month |-> 11, day |-> 15]

\* What the call at line 204 may produce: a lunar date, or an exception.
ResolverOutcomes(d) ==
    { [raised |-> TRUE, lunar |-> NoValue], [raised |-> FALSE, lunar |-> Solar2Lunar(d)] }

\* check_lunar_new_year testing the lunar month alone.
check_lunar_new_year_MonthOnly(today, rows, svc, resolved, storeOk, sendFails, renderFails) ==
    IF resolved.raised
    THEN Run("lunar_new_year_check", CaughtByBody, "resolver", today, <<>>, <<>>, Nothing, <<>>)
    ELSE IF resolved.lunar.month = 1
    THEN _send_holiday_cards("lunar_new_year_check", today, rows, svc, storeOk, sendFails, renderFails)
    ELSE Run("lunar_new_year_check", "not_today", NoValue, today, <<>>, <<>>, Nothing, <<>>)

\* check_lunar_new_year without its try/except: the resolver's exception
\* leaves the body.
check_lunar_new_year_Uncaught(today, rows, svc, resolved, storeOk, sendFails, renderFails) ==
    IF resolved.raised
    THEN Run("lunar_new_year_check", "raised", "resolver", today, <<>>, <<>>, Nothing, <<>>)
    ELSE IF resolved.lunar.month = 1 /\ resolved.lunar.day = 1
    THEN _send_holiday_cards("lunar_new_year_check", today, rows, svc, storeOk, sendFails, renderFails)
    ELSE Run("lunar_new_year_check", "not_today", NoValue, today, <<>>, <<>>, Nothing, <<>>)

check_lunar_new_year(today, rows, svc, resolved, storeOk, sendFails, renderFails) ==
    IF resolved.raised
    THEN Run("lunar_new_year_check", CaughtByBody, "resolver", today, <<>>, <<>>, Nothing, <<>>)
    ELSE IF resolved.lunar.month = 1 /\ resolved.lunar.day = 1
    THEN _send_holiday_cards("lunar_new_year_check", today, rows, svc, storeOk, sendFails, renderFails)
    ELSE Run("lunar_new_year_check", "not_today", NoValue, today, <<>>, <<>>, Nothing, <<>>)

(***************************************************************************)
(* The scheduler: the jobs SchedulerService.start registers and the        *)
(* AsyncIOScheduler that fires them.                                       *)
(***************************************************************************)
JobIds == { "monthly_report", "birthday_check", "christmas", "new_year", "lunar_new_year_check" }

AnyMonth == 1..12
AnyDay == 1..31

\* CronTrigger(month=.., day=.., hour=.., minute=..): a field left out that
\* is more significant than a given one matches every value.
CronTrigger(months, days, hour, minute) ==
    [kind |-> "cron", month |-> months, day |-> days, hour |-> hour, minute |-> minute]

\* DateTrigger: fires once, then the scheduler drops the job.
DateTrigger(months, days, hour, minute) ==
    [kind |-> "date", month |-> months, day |-> days, hour |-> hour, minute |-> minute]

\* start with every job on a one-shot trigger.
TriggerOfOnce(j) ==
    CASE j = "monthly_report" -> DateTrigger(AnyMonth, {1}, 9, 0)
      [] j = "birthday_check" -> DateTrigger(AnyMonth, AnyDay, 8, 0)
      [] j = "christmas" -> DateTrigger({12}, {25}, 8, 0)
      [] j = "new_year" -> DateTrigger({1}, {1}, 0, 0)
      [] j = "lunar_new_year_check" -> DateTrigger(AnyMonth, AnyDay, 0, 0)

\* start with the monthly report on a trigger without day=1.
TriggerOfNoDay(j) ==
    CASE j = "monthly_report" -> CronTrigger(AnyMonth, AnyDay, 9, 0)
      [] j = "birthday_check" -> CronTrigger(AnyMonth, AnyDay, 8, 0)
      [] j = "christmas" -> CronTrigger({12}, {25}, 8, 0)
      [] j = "new_year" -> CronTrigger({1}, {1}, 0, 0)
      [] j = "lunar_new_year_check" -> CronTrigger(AnyMonth, AnyDay, 0, 0)

TriggerOf(j) ==
    CASE j = "monthly_report" -> CronTrigger(AnyMonth, {1}, 9, 0)
      [] j = "birthday_check" -> CronTrigger(AnyMonth, AnyDay, 8, 0)
      [] j = "christmas" -> CronTrigger({12}, {25}, 8, 0)
      [] j = "new_year" -> CronTrigger({1}, {1}, 0, 0)
      [] j = "lunar_new_year_check" -> CronTrigger(AnyMonth, AnyDay, 0, 0)

Matches(trigger, t) ==
    /\ t.month \in trigger.month
    /\ t.day \in trigger.day
    /\ t.hour = trigger.hour
    /\ t.minute = trigger.minute

\* Whether the trigger has a fire time after the one it just produced.
HasNextFire(trigger) == trigger.kind = "cron"

Today == Date(now.year, now.month, now.day)

At(d, hour) == [year |-> d.year, month |-> d.month, day |-> d.day, hour |-> hour, minute |-> 0]

\* The instants at which a trigger of start can match: 00:00, 08:00, 09:00.
NextInstant(t) ==
    IF t.hour < 8 THEN At(Date(t.year, t.month, t.day), 8)
    ELSE IF t.hour < 9 THEN At(Date(t.year, t.month, t.day), 9)
    ELSE At(PlusOneDay(Date(t.year, t.month, t.day)), 0)

Emails(rows) == { rows[i].email : i \in { k \in 1..Len(rows) : Truthy(rows[k].email) } }

Names(rows) == { rows[i].name : i \in 1..Len(rows) }

\* startup_event -> SchedulerService.start
Start ==
    /\ started = "created"
    /\ started' = "running"
    /\ registry' = JobIds
    /\ status' = [j \in JobIds |-> "Idle"]
    /\ UNCHANGED <<now, daysLeft, staff, reports, service, lastRun, session,
                 users, response>>

\* shutdown_event -> SchedulerService.shutdown: the job store is emptied and
\* submitted runs that have not begun are cancelled.  shutdown_event is a
\* coroutine of the event loop the bodies run on, and a body never yields
\* to the loop: it cannot run while a body is running.
Shutdown ==
    /\ started = "running"
    /\ \A j \in JobIds : status[j] # "Running"
    /\ started' = "stopped"
    /\ registry' = {}
    /\ status' = [j \in JobIds |-> IF status[j] = "Due" THEN "Idle" ELSE status[j]]
    /\ UNCHANGED <<now, daysLeft, staff, reports, service, lastRun, session,
                 users, response>>

\* The clock reaches the next instant (the process is alive while the
\* scheduler runs); the scheduler submits every job whose
\* trigger matches it and drops the jobs whose trigger is exhausted.
Tick ==
    /\ started = "running"
    /\ \A j \in JobIds : status[j] = "Idle"
    /\ now.hour < 9 \/ daysLeft > 0
    /\ now' = NextInstant(now)
    /\ daysLeft' = IF now.hour < 9 THEN daysLeft ELSE daysLeft - 1
    /\ status' = [j \in JobIds |->
                    IF j \in registry /\ Matches(TriggerOf(j), now') THEN "Due" ELSE status[j]]
    /\ registry' = { j \in registry : Matches(TriggerOf(j), now') => HasNextFire(TriggerOf(j)) }
    /\ UNCHANGED <<started, staff, reports, service, lastRun, session,
                 users, response>>

\* The event loop starting a body whether or not the run was submitted.
BeginUnsubmitted(j) ==
    /\ status[j] \in {"Idle", "Due"}
    /\ \A k \in JobIds : status[k] # "Running"
    /\ status' = [status EXCEPT ![j] = "Running"]
    /\ UNCHANGED <<now, daysLeft, started, registry, staff, reports, service, lastRun, session,
                 users, response>>

\* An executor that starts a submitted run while another body is running
\* (a thread pool in place of the event loop).
BeginConcurrently(j) ==
    /\ status[j] = "Due"
    /\ status' = [status EXCEPT ![j] = "Running"]
    /\ UNCHANGED <<now, daysLeft, started, registry, staff, reports, service, lastRun, session,
                 users, response>>

\* The event loop starts the coroutine of a submitted run; one runs at a time.
Begin(j) ==
    /\ status[j] = "Due"
    /\ \A k \in JobIds : status[k] # "Running"
    /\ status' = [status EXCEPT ![j] = "Running"]
    /\ UNCHANGED <<now, daysLeft, started, registry, staff, reports, service, lastRun, session,
                 users, response>>

\* What became of the Store session of a run when its body returned.  The
\* bodies open it first thing in their try (lines 97, 145, 224) and close
\* it at the early return (109) and at the end of the normal path (133,
\* 183, 238); the except clauses (135, 185, 240) do not close it.  The
\* lunar job opens none unless it goes into _send_holiday_cards.
SessionAfter(run) ==
    IF run.outcome \in {"ok", "no_report"} THEN "closed"
    ELSE IF run.outcome = "error" /\ run.error # "resolver" THEN "open"
    ELSE "none"

\* The AdminUser table: init_db creates the one administrator; is_active
\* can be cleared in the database.
AdminUser(username, is_active) == [username |-> username, is_active |-> is_active]

AdminUsers == { AdminUser("admin", TRUE) }

\* No request has been answered yet.
NoResponse ==
    [op |-> NoValue, code |-> 0, ok |-> FALSE, data |-> <<>>,
     request |-> [present |-> FALSE, sub |-> NoValue, signed |-> FALSE, expired |-> FALSE,
                  quotes |-> NoValue, focus |-> NoValue]]

\* The bodies with a record of the pass already made: a job that has gone
\* through its pass today sends nothing when it is fired again.
JobBodyOncePerDay(j, resolved, storeOk, sendFails, renderFails) ==
    IF lastRun.job = j /\ lastRun.today = Today /\ lastRun.outcome = "ok"
    THEN Run(j, "ok", NoValue, Today, lastRun.month, staff, Nothing, <<>>)
    ELSE CASE j = "monthly_report" ->
                send_monthly_reports(Today, staff, reports, service, storeOk, sendFails, renderFails)
          [] j = "birthday_check" ->
                check_and_send_birthday_cards(Today, staff, service, storeOk, sendFails, renderFails)
          [] j = "christmas" ->
                _send_holiday_cards("christmas", Today, staff, service, storeOk, sendFails, renderFails)
          [] j = "new_year" ->
                _send_holiday_cards("new_year", Today, staff, service, storeOk, sendFails, renderFails)
          [] j = "lunar_new_year_check" ->
                check_lunar_new_year(Today, staff, service, resolved, storeOk, sendFails, renderFails)

\* The bodies reading the staff list an earlier run has read, when there
\* is one, in place of the table.
JobBodyCachedStaff(j, resolved, storeOk, sendFails, renderFails) ==
    LET rows == IF lastRun.scanned # <<>> THEN lastRun.scanned ELSE staff
    IN  CASE j = "monthly_report" ->
                send_monthly_reports(Today, rows, reports, service, storeOk, sendFails, renderFails)
          [] j = "birthday_check" ->
                check_and_send_birthday_cards(Today, rows, service, storeOk, sendFails, renderFails)
          [] j = "christmas" ->
                _send_holiday_cards("christmas", Today, rows, service, storeOk, sendFails, renderFails)
          [] j = "new_year" ->
                _send_holiday_cards("new_year", Today, rows, service, storeOk, sendFails, renderFails)
          [] j = "lunar_new_year_check" ->
                check_lunar_new_year(Today, rows, service, resolved, storeOk, sendFails, renderFails)

\* The body of job j with the inputs of this run.
JobBody(j, resolved, storeOk, sendFails, renderFails) ==
    CASE j = "monthly_report" ->
            send_monthly_reports(Today, staff, reports, service, storeOk, sendFails, renderFails)
      [] j = "birthday_check" ->
            check_and_send_birthday_cards(Today, staff, service, storeOk, sendFails, renderFails)
      [] j = "christmas" ->
            _send_holiday_cards("christmas", Today, staff, service, storeOk, sendFails, renderFails)
      [] j = "new_year" ->
            _send_holiday_cards("new_year", Today, staff, service, storeOk, sendFails, renderFails)
      [] j = "lunar_new_year_check" ->
            check_lunar_new_year(Today, staff, service, resolved, storeOk, sendFails, renderFails)

\* What one run may meet: the resolver's answer (read by the lunar job
\* alone), the Store reachable or not, and, when it is, the addresses whose
\* Gmail call raises and the names whose template call raises.
RunInputs(j, renderFaults) ==
    { [resolved |-> r, storeOk |-> ok, sendFails |-> sf, renderFails |-> rf] :
        r \in IF j = "lunar_new_year_check" THEN ResolverOutcomes(Today)
              ELSE {[raised |-> FALSE, lunar |-> Solar2Lunar(Today)]},
        ok \in BOOLEAN, sf \in SUBSET Emails(staff), rf \in renderFaults }

\* The end of a run that takes a job whose run failed out of the job store.
BodyDropsFailed(j, renderFaults) ==
    /\ status[j] = "Running"
    /\ \E in \in { x \in RunInputs(j, renderFaults) :
                     x.storeOk \/ (x.sendFails = {} /\ x.renderFails = {}) } :
            lastRun' = JobBody(j, in.resolved, in.storeOk, in.sendFails, in.renderFails)
    /\ status' = [status EXCEPT ![j] = "Idle"]
    /\ registry' = IF lastRun'.outcome = "error" THEN registry \ {j} ELSE registry
    /\ session' = SessionAfter(lastRun')
    /\ UNCHANGED <<now, daysLeft, started, staff, reports, service, users, response>>

\* The end of a run that deletes the staff rows whose send failed.
BodyDropsBounced(j, renderFaults) ==
    /\ status[j] = "Running"
    /\ \E in \in { x \in RunInputs(j, renderFaults) :
                     x.storeOk \/ (x.sendFails = {} /\ x.renderFails = {}) } :
            lastRun' = JobBody(j, in.resolved, in.storeOk, in.sendFails, in.renderFails)
    /\ session' = SessionAfter(lastRun')
    /\ status' = [status EXCEPT ![j] = "Idle"]
    /\ staff' = LET Kept(s) == \A i \in 1..Len(lastRun'.attempted) :
                                  lastRun'.attempted[i] = s.email =>
                                      \E k \in 1..Len(lastRun'.delivered) :
                                          lastRun'.delivered[k] = s.email
                IN  SelectSeq(staff, Kept)
    /\ UNCHANGED <<now, daysLeft, started, registry, reports, service, users, response>>

\* The coroutine runs to its end (it never yields to the event loop); the
\* executor logs an exception that leaves it and the job stays scheduled.
Body(j, renderFaults) ==
    /\ status[j] = "Running"
    /\ \E in \in { x \in RunInputs(j, renderFaults) :
                     x.storeOk \/ (x.sendFails = {} /\ x.renderFails = {}) } :
            lastRun' = JobBody(j, in.resolved, in.storeOk, in.sendFails, in.renderFails)
    /\ status' = [status EXCEPT ![j] = "Idle"]
    /\ session' = SessionAfter(lastRun')
    /\ UNCHANGED <<now, daysLeft, started, registry, staff, reports, service, users, response>>

StartDates == { Date(2024, 2, 28), Date(2025, 12, 24), Date(2025, 12, 31),
                Date(2026, 1, 31), Date(2026, 2, 16) }

InitAt(dates, days, tables, stores, services) ==
    /\ now \in { At(d, 9) : d \in dates }
    /\ daysLeft = days
    /\ started = "created"
    /\ registry = {}
    /\ status = [j \in JobIds |-> "Idle"]
    /\ staff \in tables
    /\ reports \in stores
    /\ service \in services
    /\ lastRun = NoRun
    /\ session = "none"
    /\ users = AdminUsers
    /\ response = NoResponse

Init == InitAt(StartDates, MaxDays, StaffTables, ReportStores, BOOLEAN)

Next ==
    \/ Start
    \/ Shutdown
    \/ Tick
    \/ \E j \in JobIds : Begin(j)
    \/ \E j \in JobIds : Body(j, {{}})

Spec == Init /\ [][Next]_vars

(***************************************************************************)
(* The same system with rendering faults injected: the template call of    *)
(* a recipient may raise.                                                  *)
(***************************************************************************)
FaultNext ==
    \/ Start
    \/ Shutdown
    \/ Tick
    \/ \E j \in JobIds : Begin(j)
    \/ \E j \in JobIds : Body(j, SUBSET Names(staff))

FaultInit ==
    InitAt({Date(2025, 12, 24), Date(2026, 1, 31)}, MaxDays, StaffTables,
           {{Report(Key_2025_12), Report(Key_2026_01)}}, {TRUE})

FaultSpec == FaultInit /\ [][FaultNext]_vars

(***************************************************************************)
(* Every first of the month of the years modelled, on a small store.       *)
(***************************************************************************)
MonthEnds == { MinusOneDay(Date(y, m, 1)) : y \in 2024..2027, m \in 1..12 }

MonthInit ==
    InitAt(MonthEnds, MaxDays, {RowsOf({1})}, {{Report(Key_2025_12), Report(Key_2026_01)}}, {TRUE})

MonthSpec == MonthInit /\ [][Next]_vars

(***************************************************************************)
(* More than a year of the clock on a small store, with the fairness of    *)
(* the event loop: time passes, a submitted run begins, a body ends.       *)
(***************************************************************************)
LiveInit ==
    InitAt({Date(2025, 12, 24)}, LiveDays, {RowsOf({1})}, {{Report(Key_2026_01)}}, {TRUE})

LiveSpec ==
    /\ LiveInit
    /\ [][Next]_vars
    /\ WF_vars(Start)
    /\ WF_vars(Tick)
    /\ \A j \in JobIds : WF_vars(Begin(j)) /\ WF_vars(Body(j, {{}}))

(***************************************************************************)
(* The process stopped and started again on the same day, the system clock *)
(* possibly set back in between: a trigger whose fire time has passed      *)
(* comes up a second time on the same date.                                *)
(***************************************************************************)
\* A new process after shutdown_event: startup_event builds a new
\* SchedulerService; nothing of the old scheduler is kept.  date.today()
\* and the scheduler read the system clock, which may have been set back
\* to 08:00 of the same day.
Restart ==
    /\ started = "stopped"
    /\ \A j \in JobIds : status[j] # "Running"
    /\ started' = "created"
    /\ now' \in IF now.hour = 9 THEN { now, At(Today, 8) } ELSE { now }
    /\ UNCHANGED <<daysLeft, registry, status, staff, reports, service, lastRun, session,
                 users, response>>

RefireNext ==
    \/ Next
    \/ Restart

RefireInit ==
    InitAt({Date(2025, 12, 24), Date(2025, 12, 31)}, MaxDays,
           { t \in StaffTables : \A i \in 1..Len(t) : t[i].id \in {1, 3, 8} },
           {{Report(Key_2025_12), Report(Key_2026_01)}}, BOOLEAN)

RefireSpec == RefireInit /\ [][RefireNext]_vars

(***************************************************************************)
(* A slow Gmail call.  send_email calls the Gmail API synchronously from   *)
(* inside the coroutine of the job, so the event loop, and with it the     *)
(* scheduler's wake-up, is blocked until the call returns.  The fire times *)
(* that pass meanwhile are looked at when the body has ended: a run whose  *)
(* fire time is then more than misfire_grace_time in the past is skipped   *)
(* (add_job is called without misfire_grace_time), an earlier one is       *)
(* submitted.                                                              *)
(***************************************************************************)
\* The clock reaches the next instant of the day while a body is waiting
\* for the Gmail API.
SlowTick ==
    /\ started = "running"
    /\ \E j \in JobIds : status[j] = "Running"
    /\ service /\ Emails(staff) # {}
    /\ now.hour < 9
    /\ now' = NextInstant(now)
    /\ \E late \in BOOLEAN :
          status' = [k \in JobIds |->
                        IF k \in registry /\ Matches(TriggerOf(k), now') /\ status[k] = "Idle" /\ ~late
                        THEN "Due" ELSE status[k]]
    /\ UNCHANGED <<daysLeft, started, registry, staff, reports, service, lastRun, session,
                 users, response>>

SlowNext ==
    \/ Next
    \/ SlowTick

SlowInit ==
    InitAt({Date(2025, 12, 24), Date(2025, 12, 31)}, MaxDays,
           { t \in StaffTables : \A i \in 1..Len(t) : t[i].id \in {1, 2, 3} },
           {{Report(Key_2025_12), Report(Key_2026_01)}}, {TRUE})

SlowSpec == SlowInit /\ [][SlowNext]_vars

(***************************************************************************)
(* The HTTP API of main.py that writes the Store: create_report,           *)
(* update_report, sync_staff, and the on-demand send_birthday_cards_now.   *)
(* The handlers are coroutines without an await: each is one step of the   *)
(* event loop, taken while no job body is running.                         *)
(***************************************************************************)
\* The Authorization header: absent, or a bearer token with the "sub" it
\* carries (NoValue: no "sub"), its signature good or not, expired or not.
Credentials(present, sub, signed, expired) ==
    [present |-> present, sub |-> sub, signed |-> signed, expired |-> expired]

CredentialsSent == {
    Credentials(FALSE, NoValue, FALSE, FALSE),
    Credentials(TRUE, "admin", TRUE, FALSE),
    Credentials(TRUE, "admin", TRUE, TRUE),
    Credentials(TRUE, "admin", FALSE, FALSE),
    Credentials(TRUE, "ghost", TRUE, FALSE),
    Credentials(TRUE, NoValue, TRUE, FALSE) }

\* A response, kept with the request it answers: the credentials sent and
\* the fields of the body.
Request(credentials, quotes, focus) ==
    [present |-> credentials.present, sub |-> credentials.sub, signed |-> credentials.signed,
     expired |-> credentials.expired, quotes |-> quotes, focus |-> focus]

Response(op, code, ok, data, request) ==
    [op |-> op, code |-> code, ok |-> ok, data |-> data, request |-> request]

\* decode_token: jwt.decode checks the signature and "exp"; a JWTError
\* gives None.
decode_token(token) ==
    IF token.signed /\ ~token.expired THEN [ok |-> TRUE, sub |-> token.sub]
    ELSE [ok |-> FALSE, sub |-> NoValue]

HTTP_200 == 200
HTTP_400 == 400
HTTP_401 == 401
HTTP_404 == 404
HTTP_500 == 500

\* get_current_user without its test of the token.
get_current_user_NoDecode(credentials, us) ==
    IF ~credentials.present THEN HTTP_401
    ELSE IF credentials.sub = NoValue THEN HTTP_401
    ELSE IF ~\E u \in us : u.username = credentials.sub /\ u.is_active THEN HTTP_401
    ELSE HTTP_200

\* get_current_user: 401 unless the token decodes to the username of an
\* active AdminUser.
get_current_user(credentials, us) ==
    IF ~credentials.present THEN HTTP_401
    ELSE LET payload == decode_token(credentials)
         IN  IF ~payload.ok THEN HTTP_401
             ELSE IF payload.sub = NoValue THEN HTTP_401
             ELSE IF ~\E u \in us : u.username = payload.sub /\ u.is_active THEN HTTP_401
             ELSE HTTP_200

\* The bodies of POST /api/report and PUT /api/report/{month}: a month key
\* and the fields modelled; in an update a field may be null.
ApiMonths == { Key_2025_12, Key_2026_01 }

ReportCreate == { [month |-> m, quotes |-> q, focus |-> f] : m \in ApiMonths, q \in {"r"}, f \in {"g"} }

ReportUpdate == { [quotes |-> q, focus |-> f] : q \in {NoValue, "r"}, f \in {NoValue, "g"} }

\* The addresses of a list of rows or recipients, in order.
EmailsOf(staff_list) == [i \in 1..Len(staff_list) |-> staff_list[i].email]

\* The server answers requests from startup on, between the steps of the
\* event loop: not while a job body is running.
Serving == started = "running" /\ \A j \in JobIds : status[j] # "Running"

\* create_report writing the row without looking for an existing one.
CreateReportNoLookup(rs, auth, report_data, dbOk) ==
    IF auth # HTTP_200 THEN [reports |-> rs, code |-> auth]
    ELSE IF ~dbOk THEN [reports |-> rs, code |-> HTTP_500]
    ELSE [reports |-> rs \cup {report_data}, code |-> HTTP_200]

\* create_report (2098-2136) on the table rs: the dependency first, then
\* the lookup, then add and commit; a database error is rolled back.
CreateReport(rs, auth, report_data, dbOk) ==
    IF auth # HTTP_200 THEN [reports |-> rs, code |-> auth]
    ELSE IF FindReport(rs, report_data.month) # {} THEN [reports |-> rs, code |-> HTTP_400]
    ELSE IF ~dbOk THEN [reports |-> rs, code |-> HTTP_500]
    ELSE [reports |-> rs \cup {report_data}, code |-> HTTP_200]

\* update_report assigning every field of the request, null or not.
UpdateReportAllFields(rs, auth, month, report_data, dbOk) ==
    IF auth # HTTP_200 THEN [reports |-> rs, code |-> auth]
    ELSE IF FindReport(rs, month) = {} THEN [reports |-> rs, code |-> HTTP_404]
    ELSE IF ~dbOk THEN [reports |-> rs, code |-> HTTP_500]
    ELSE [reports |-> { IF r.month = month
                        THEN [r EXCEPT !.quotes = report_data.quotes, !.focus = report_data.focus]
                        ELSE r : r \in rs },
          code |-> HTTP_200]

\* update_report (2138-2178): the fields of the request that are not None
\* are assigned to the report of the month, then commit.
UpdateReport(rs, auth, month, report_data, dbOk) ==
    IF auth # HTTP_200 THEN [reports |-> rs, code |-> auth]
    ELSE IF FindReport(rs, month) = {} THEN [reports |-> rs, code |-> HTTP_404]
    ELSE IF ~dbOk THEN [reports |-> rs, code |-> HTTP_500]
    ELSE LET Updated(r) ==
                 [r EXCEPT !.quotes = IF report_data.quotes # NoValue THEN report_data.quotes ELSE @,
                           !.focus = IF report_data.focus # NoValue THEN report_data.focus ELSE @]
         IN  [reports |-> { IF r.month = month THEN Updated(r) ELSE r : r \in rs },
              code |-> HTTP_200]

create_report ==
    /\ Serving
    /\ \E credentials \in CredentialsSent, report_data \in ReportCreate, dbOk \in BOOLEAN :
          LET r == CreateReport(reports, get_current_user(credentials, users), report_data, dbOk)
          IN  /\ reports' = r.reports
              /\ response' = Response("create_report", r.code, r.code = HTTP_200, report_data.month,
                                      Request(credentials, report_data.quotes, report_data.focus))
    /\ UNCHANGED <<now, daysLeft, started, registry, status, staff, service, lastRun, session, users>>

update_report ==
    /\ Serving
    /\ \E credentials \in CredentialsSent, month \in ApiMonths, report_data \in ReportUpdate,
          dbOk \in BOOLEAN :
          LET r == UpdateReport(reports, get_current_user(credentials, users), month, report_data, dbOk)
          IN  /\ reports' = r.reports
              /\ response' = Response("update_report", r.code, r.code = HTTP_200, month,
                                      Request(credentials, report_data.quotes, report_data.focus))
    /\ UNCHANGED <<now, daysLeft, started, registry, status, staff, service, lastRun, session, users>>

\* What sync_staff loads from STAFF_DATA_JSON or the staff file: nothing
\* (the source cannot be read or parsed), or a list of entries of which
\* entry `bad` lacks a key ("id", "name" or "birthday"); bad = 0: none does.
Loaded(kind, rows, bad) == [kind |-> kind, rows |-> rows, bad |-> bad]

StaffLists == { <<>>, RowsOf({1}), RowsOf({1, 3}), RowsOf({2, 8}) }

LoadOutcomes ==
    { Loaded("unreadable", <<>>, 0) }
        \cup { Loaded("list", rows, bad) : rows \in StaffLists, bad \in 0..MaxStaff }

\* The loop of db.add over the loaded entries (2213-2220), in the session:
\* the rows added so far, and whether an entry raised.
RECURSIVE AddFrom(_, _, _, _)
AddFrom(entries, i, added, bad) ==
    IF i > Len(entries) THEN [rows |-> added, raised |-> FALSE]
    ELSE IF i = bad THEN [rows |-> added, raised |-> TRUE]
    ELSE AddFrom(entries, i + 1, Append(added, entries[i]), bad)

\* sync_staff whose writes are not undone when it fails.
SyncStaffNoRollback(table, loaded, dbOk) ==
    IF loaded.kind = "unreadable" THEN [staff |-> table, ok |-> FALSE]
    ELSE LET tx == AddFrom(loaded.rows, 1, <<>>, loaded.bad)
         IN  IF tx.raised \/ ~dbOk THEN [staff |-> tx.rows, ok |-> FALSE]
             ELSE [staff |-> tx.rows, ok |-> TRUE]

\* sync_staff (2180-2235) on the Staff table: an unreadable source returns
\* before any write; delete and the adds are made in one transaction,
\* committed at the end, rolled back by the except clause.
SyncStaff(table, loaded, dbOk) ==
    IF loaded.kind = "unreadable" THEN [staff |-> table, ok |-> FALSE]
    ELSE LET tx == AddFrom(loaded.rows, 1, <<>>, loaded.bad)
         IN  IF tx.raised \/ ~dbOk THEN [staff |-> table, ok |-> FALSE]
             ELSE [staff |-> tx.rows, ok |-> TRUE]

sync_staff ==
    /\ Serving
    /\ \E loaded \in LoadOutcomes, dbOk \in BOOLEAN :
          LET r == SyncStaff(staff, loaded, dbOk)
          IN  /\ staff' = r.staff
              /\ response' = Response("sync_staff", HTTP_200, r.ok, loaded.rows,
                                      NoResponse.request)
    /\ UNCHANGED <<now, daysLeft, started, registry, status, reports, service, lastRun, session, users>>

\* The test of one row in send_birthday_cards_now without its
\* "if staff.email".
BirthdayNowTestNoEmailTest(s, today) ==
    IF s.birthday = <<>> THEN "skip"
    ELSE LET parts == Split(s.birthday)
         IN  IF Len(parts) < 3 THEN "other"
             ELSE IF ~CanParseInt(parts[2]) \/ ~CanParseInt(parts[3]) THEN "error"
             ELSE IF ParseInt(parts[2]) = today.month /\ ParseInt(parts[3]) = today.day
             THEN "send" ELSE "other"

\* The test of one row in send_birthday_cards_now (2254-2276): "skip" (no
\* birthday), "error" (int() raised, caught at 2282), "other", "listed"
\* (born today, no email: listed and not sent) or "send".
BirthdayNowTest(s, today) ==
    IF s.birthday = <<>> THEN "skip"
    ELSE LET parts == Split(s.birthday)
         IN  IF Len(parts) < 3 THEN "other"
             ELSE IF ~CanParseInt(parts[2]) \/ ~CanParseInt(parts[3]) THEN "error"
             ELSE IF ParseInt(parts[2]) = today.month /\ ParseInt(parts[3]) = today.day
             THEN (IF Truthy(s.email) THEN "send" ELSE "listed")
             ELSE "other"

\* The loop of send_birthday_cards_now over all_staff from row i on: the
\* addresses send_birthday_card was called with, in order.
RECURSIVE BirthdayNowLoop(_, _, _, _)
BirthdayNowLoop(rows, i, attempted, today) ==
    IF i > Len(rows) THEN attempted
    ELSE IF BirthdayNowTest(rows[i], today) = "send"
    THEN BirthdayNowLoop(rows, i + 1, Append(attempted, rows[i].email), today)
    ELSE BirthdayNowLoop(rows, i + 1, attempted, today)

\* POST /api/birthday/send: the answer is "success" with the cards sent, or
\* "error" when the Store query raised.
send_birthday_cards_now ==
    /\ Serving
    /\ \E storeOk \in BOOLEAN :
          response' = Response("send_birthday_cards_now", HTTP_200, storeOk,
                               IF storeOk THEN BirthdayNowLoop(staff, 1, <<>>, Today) ELSE <<>>,
                               NoResponse.request)
    /\ UNCHANGED <<now, daysLeft, started, registry, status, staff, reports, service, lastRun,
                   session, users>>

\* The Store at startup: the report init_db seeds (main.py 270-271).
ApiInitAt(tables, admins) ==
    /\ now = At(Date(2025, 12, 24), 9)
    /\ daysLeft = MaxDays
    /\ started = "created"
    /\ registry = {}
    /\ status = [j \in JobIds |-> "Idle"]
    /\ staff \in tables
    /\ reports = {Report(Key_2026_01)}
    /\ service = TRUE
    /\ lastRun = NoRun
    /\ session = "none"
    /\ users \in admins
    /\ response = NoResponse

(***************************************************************************)
(* The report API on a server whose clock stands still: the administrator  *)
(* active or deactivated.                                                  *)
(***************************************************************************)
ApiNext ==
    \/ Start
    \/ Shutdown
    \/ create_report
    \/ update_report

ApiInit ==
    ApiInitAt({RowsOf({1})}, { {AdminUser("admin", TRUE)}, {AdminUser("admin", FALSE)} })

ApiSpec == ApiInit /\ [][ApiNext]_vars

(***************************************************************************)
(* The scheduler together with the requests that add a report, rewrite     *)
(* the Staff table and send today's birthday cards on demand.              *)
(***************************************************************************)
StoreNext ==
    \/ Next
    \/ create_report
    \/ sync_staff
    \/ send_birthday_cards_now

StoreInit == ApiInitAt(StaffLists \ {<<>>}, {AdminUsers})

StoreSpec == StoreInit /\ [][StoreNext]_vars

(***************************************************************************)
(* generate_calendar_html (main.py 420-479): the month grid of the         *)
(* dashboard.                                                              *)
(***************************************************************************)
\* The days from 2000-01-01 to the first day of year y, and to day d of
\* month m of year y.
RECURSIVE DaysBeforeYear(_)
DaysBeforeYear(y) ==
    IF y <= 2000 THEN 0 ELSE DaysBeforeYear(y - 1) + (IF IsLeap(y - 1) THEN 366 ELSE 365)

RECURSIVE DaysBeforeMonth(_, _)
DaysBeforeMonth(y, m) ==
    IF m <= 1 THEN 0 ELSE DaysBeforeMonth(y, m - 1) + DaysInMonth(y, m - 1)

\* datetime.date(y, m, d).weekday(): Monday is 0, Sunday is 6; 2000-01-01
\* was a Saturday.
Weekday(y, m, d) == (5 + DaysBeforeYear(y) + DaysBeforeMonth(y, m) + (d - 1)) % 7

\* calendar.firstweekday() when calendar.setfirstweekday was never called.
FirstWeekday == 0

RECURSIVE Zeros(_)
Zeros(n) == IF n <= 0 THEN <<>> ELSE <<0>> \o Zeros(n - 1)

\* calendar.monthcalendar(year, month), the weeks one after the other:
\* each week starts on calendar.firstweekday(); 0 stands for a day outside
\* the month.
monthcalendar(year, month) ==
    LET lead == (Weekday(year, month, 1) - FirstWeekday + 7) % 7
        days == [d \in 1..DaysInMonth(year, month) |-> d]
        tail == (7 - ((lead + Len(days)) % 7)) % 7
    IN  Zeros(lead) \o days \o Zeros(tail)

\* The header row written at lines 447-453: Sunday first.
CalendarHeader == <<"Sun", "Mon", "Tue", "Wed", "Thu", "Fri", "Sat">>

\* generate_calendar_html: the cells of the grid in the order written, one
\* per entry of monthcalendar (lines 457-472); the css grid puts cell i
\* under header column ((i - 1) % 7) + 1.
generate_calendar_html(year, month) == monthcalendar(year, month)

CalYears == 2020..2030

\* GET /: the dashboard renders the calendar of a month.
render_calendar ==
    /\ response.op = NoValue
    /\ response' = Response("generate_calendar_html", HTTP_200, TRUE,
                            generate_calendar_html(now.year, now.month), NoResponse.request)
    /\ UNCHANGED <<now, daysLeft, started, registry, status, staff, reports, service, lastRun,
                   session, users>>

CalInit ==
    /\ now \in { At(Date(y, m, 1), 0) : y \in CalYears, m \in 1..12 }
    /\ daysLeft = 0
    /\ started = "running"
    /\ registry = JobIds
    /\ status = [j \in JobIds |-> "Idle"]
    /\ staff = <<>>
    /\ reports = {Report(Key_2026_01)}
    /\ service = TRUE
    /\ lastRun = NoRun
    /\ session = "none"
    /\ users = AdminUsers
    /\ response = NoResponse

CalNext == render_calendar

CalSpec == CalInit /\ [][CalNext]_vars

(***************************************************************************)
(* Properties.                                                             *)
(***************************************************************************)
Range(q) == { q[i] : i \in 1..Len(q) }

BroadcastJobs == { "monthly_report", "christmas", "new_year", "lunar_new_year_check" }

\* The most recent run reached the send loop of a broadcast.
LoopEntered ==
    /\ lastRun.job \in BroadcastJobs
    /\ lastRun.outcome \in {"ok", "error"}
    /\ lastRun.error \notin {"store", "resolver"}

\* The days within which the trigger of a job fires again.
Period(j) ==
    CASE j \in {"birthday_check", "lunar_new_year_check"} -> 1
      [] j = "monthly_report" -> 31
      [] OTHER -> 366

\* The most recent run was job j, it failed, and the scheduler still runs.
FailedRun(j) ==
    /\ lastRun.job = j
    /\ lastRun.outcome = "error"
    /\ status[j] = "Idle"
    /\ started = "running"

\* C1: a run of any of the five jobs that fails (the Store unreachable, the
\* resolver raising) does not stall the job: when the run ends the job is
\* Idle and still registered, and, unless the scheduler is shut down, the
\* job is submitted again at its next fire time (within the clock's bound).
C1_FailedRunFiresAgain ==
    /\ [][\A j \in JobIds :
            (status[j] = "Running" /\ status'[j] # "Running")
                => (status'[j] = "Idle" /\ (started = "running" => j \in registry'))]_vars
    /\ [](\A j \in JobIds : FailedRun(j) => j \in registry)
    /\ \A j \in JobIds :
            (FailedRun(j) /\ daysLeft >= Period(j)) ~> (status[j] = "Due" \/ started = "stopped")

\* A yearly job has failed with its next fire still ahead of the clock's bound.
C1_Witness ==
    /\ FailedRun("christmas")
    /\ lastRun.error = "store"
    /\ daysLeft >= Period("christmas")

\* C2: a broadcast over K recipients of which J sends fail attempts all K,
\* and its summary reports K - J succeeded of K.
C2_BroadcastSummary ==
    LoopEntered =>
        LET K == Len(lastRun.recipients)
            J == Cardinality({ i \in 1..Len(lastRun.attempted) :
                                 lastRun.attempted[i] \notin Range(lastRun.delivered) })
        IN  /\ lastRun.attempted = EmailsOf(lastRun.recipients)
            /\ lastRun.summary = <<K - J, K>>

\* A holiday broadcast over two recipients in which the first send failed.
C2_Witness ==
    /\ lastRun.job = "christmas"
    /\ lastRun.outcome = "ok"
    /\ Len(lastRun.recipients) = 2
    /\ lastRun.delivered = <<lastRun.recipients[2].email>>
    /\ lastRun.summary = <<1, 2>>

\* C3 as stated: whatever raises while one recipient is handled, rendering
\* included, the loop goes on and every recipient is attempted.
C3_AnyErrorIsLocal ==
    LoopEntered =>
        /\ lastRun.outcome = "ok"
        /\ lastRun.attempted = EmailsOf(lastRun.recipients)

IsProperPrefix(p, q) == Len(p) < Len(q) /\ \A i \in 1..Len(p) : p[i] = q[i]

\* C3 amended: an error raised while sending to one recipient is that
\* recipient's failure only, and every later recipient is attempted; an
\* error raised while rendering ends the loop, the recipient it was raised
\* for and the later ones are not attempted, no summary is logged, and the
\* error is caught by the job body.
C3_SendErrorIsLocal ==
    LoopEntered =>
        IF lastRun.error = "render"
        THEN /\ lastRun.outcome = "error"
             /\ IsProperPrefix(lastRun.attempted, EmailsOf(lastRun.recipients))
             /\ lastRun.summary = <<>>
        ELSE /\ lastRun.outcome = "ok"
             /\ lastRun.attempted = EmailsOf(lastRun.recipients)
             /\ Range(lastRun.delivered) \subseteq Range(lastRun.attempted)

\* The monthly report went to two recipients, the first send failed and
\* the second was still attempted and delivered.
C3_Witness ==
    /\ lastRun.job = "monthly_report"
    /\ lastRun.outcome = "ok"
    /\ Len(lastRun.attempted) = 2
    /\ lastRun.delivered = <<lastRun.attempted[2]>>

\* The rows of a table without an address: email empty or absent.
NoAddress(rows) == { i \in 1..Len(rows) : rows[i].email \in {"", NoValue} }

\* C4: in every job, a staff record whose email is empty or absent is not
\* handed to the mail service, no send is made to an empty or absent
\* address, and the attempted count of the summary leaves such records out.
C4_NoAddressNeverAttempted ==
    lastRun.job # NoValue =>
        LET addressed == Len(lastRun.scanned) - Cardinality(NoAddress(lastRun.scanned))
        IN  /\ \A i \in NoAddress(lastRun.scanned) :
                  \A k \in 1..Len(lastRun.recipients) :
                      lastRun.recipients[k].name # lastRun.scanned[i].name
            /\ \A k \in 1..Len(lastRun.attempted) : lastRun.attempted[k] \notin {"", NoValue}
            /\ Len(lastRun.attempted) <= addressed
            /\ Len(lastRun.summary) = 2 => lastRun.summary[2] = addressed

\* A holiday broadcast read a row with an address and one without, and
\* attempted one send.
C4_Witness ==
    /\ lastRun.job = "christmas"
    /\ lastRun.outcome = "ok"
    /\ Len(lastRun.scanned) = 2
    /\ Cardinality(NoAddress(lastRun.scanned)) = 1
    /\ Len(lastRun.attempted) = 1
    /\ lastRun.summary[2] = 1

\* The key YYYY-MM of a year and a month, digit by digit.
KeyOf(y, m) ==
    << DigitChar(y \div 1000), DigitChar((y \div 100) % 10), DigitChar((y \div 10) % 10),
       DigitChar(y % 10), "-", DigitChar(m \div 10), DigitChar(m % 10) >>

\* C5: fired on date d, the monthly report job looks up the key of the
\* calendar month before d's month: December of the year before in January.
C5_LastMonthKey ==
    lastRun.job = "monthly_report" =>
        lastRun.month = IF lastRun.today.month = 1
                        THEN KeyOf(lastRun.today.year - 1, 12)
                        ELSE KeyOf(lastRun.today.year, lastRun.today.month - 1)

\* The job fired on 2026-01-01 and looked up 2025-12.
C5_Witness ==
    /\ lastRun.job = "monthly_report"
    /\ lastRun.today = Date(2026, 1, 1)
    /\ lastRun.month = Key_2025_12

\* C6: when the monthly report job runs and the Store holds no report for
\* the month it looks up, no send is made, nothing leaves the body, and
\* the run ends with "no_report" (or with the Store's error, caught).
C6_NoReportNoSends ==
    [][(/\ status["monthly_report"] = "Running"
        /\ status'["monthly_report"] = "Idle"
        /\ \A r \in reports : r.month # lastRun'.month)
       => (/\ lastRun'.job = "monthly_report"
           /\ lastRun'.recipients = <<>>
           /\ lastRun'.attempted = <<>>
           /\ lastRun'.delivered = <<>>
           /\ lastRun'.outcome \in {"no_report", "error"}
           /\ lastRun'.error \in {NoValue, "store"}
           /\ lastRun'.outcome = "error" <=> lastRun'.error = "store")]_vars

\* The job fired on 2026-02-01 over a store whose only report is keyed
\* "2026-1" and a staff table with addresses, and ended with "no_report".
C6_Witness ==
    /\ lastRun.job = "monthly_report"
    /\ lastRun.outcome = "no_report"
    /\ lastRun.today = Date(2026, 2, 1)
    /\ lastRun.month = Key_2026_01
    /\ reports = {Report(Key_2026_1)}
    /\ Emails(staff) # {}
    /\ service

\* The birthday strings "year.month.day" of a month and a day, the month
\* and the day written plainly or with a leading zero.
BirthYears == {1970, 1975, 1980, 1985, 1990}

NumStrs(n) == { Digits(n), PadTo(Digits(n), MonthWidth) }

BirthdayStrings(m, d) ==
    { Digits(y) \o <<".">> \o ms \o <<".">> \o ds :
        y \in BirthYears, ms \in NumStrs(m), ds \in NumStrs(d) }

\* The stored birth month and birth day of row s are m and d.
BornOn(s, m, d) == s.birthday \in BirthdayStrings(m, d)

BirthdayScan == lastRun.job = "birthday_check" /\ lastRun.outcome = "ok"

\* C7: in a run of the birthday job that scanned the staff, a record with
\* an email is sent a card iff its stored birth month and birth day are
\* today's month and day.
C7_CardIffBornToday ==
    BirthdayScan =>
        \A i \in 1..Len(lastRun.scanned) :
            Truthy(lastRun.scanned[i].email) =>
                (lastRun.scanned[i].email \in Range(lastRun.attempted)
                    <=> BornOn(lastRun.scanned[i], lastRun.today.month, lastRun.today.day))

\* On 12-25 the job scanned a record born that day and one born another
\* day, both with an email, and sent one card.
C7_Witness ==
    /\ BirthdayScan
    /\ lastRun.today = Date(2025, 12, 25)
    /\ Len(lastRun.scanned) = 2
    /\ NoAddress(lastRun.scanned) = {}
    /\ BornOn(lastRun.scanned[1], 12, 25)
    /\ BornOn(lastRun.scanned[2], 1, 1)
    /\ lastRun.attempted = <<lastRun.scanned[1].email>>

DotCount(t) == Cardinality({ k \in 1..Len(t) : t[k] = "." })

\* C8: a record whose birthday has fewer than three dot-separated parts
\* (no day) is never sent a birthday card.
C8_NoDayNeverMatches ==
    lastRun.job = "birthday_check" =>
        \A i \in 1..Len(lastRun.scanned) :
            DotCount(lastRun.scanned[i].birthday) < 2 =>
                lastRun.scanned[i].email \notin Range(lastRun.attempted)

\* In December the job scanned a record with an email whose birthday is
\* "1985.12".
C8_Witness ==
    /\ BirthdayScan
    /\ lastRun.today.month = 12
    /\ \E i \in 1..Len(lastRun.scanned) :
          /\ lastRun.scanned[i].birthday = <<"1","9","8","5",".","1","2">>
          /\ Truthy(lastRun.scanned[i].email)

\* The records of a table born on (m, d) that have an address.
BornToday(rows, m, d) ==
    { i \in 1..Len(rows) : Truthy(rows[i].email) /\ BornOn(rows[i], m, d) }

\* C9 as stated: with N records born today, all with addresses, the summary
\* of the birthday job reports N, whatever the sends did.
C9_SummaryReportsMatches ==
    (/\ BirthdayScan
     /\ \A i \in 1..Len(lastRun.scanned) :
            BornOn(lastRun.scanned[i], lastRun.today.month, lastRun.today.day)
                => Truthy(lastRun.scanned[i].email))
        => lastRun.summary =
             <<Cardinality(BornToday(lastRun.scanned, lastRun.today.month, lastRun.today.day))>>

RECURSIVE EmailsBornOn(_, _, _)
EmailsBornOn(rows, m, d) ==
    IF rows = <<>> THEN <<>>
    ELSE (IF Truthy(Head(rows).email) /\ BornOn(Head(rows), m, d)
          THEN <<Head(rows).email>> ELSE <<>>) \o EmailsBornOn(Tail(rows), m, d)

\* C10: the records born today are handled one by one: whatever happened to
\* the records before it (a failed delivery, a birthday that does not
\* parse), each of them is attempted, in table order.
C10_MatchesIndependent ==
    BirthdayScan =>
        lastRun.attempted =
            EmailsBornOn(lastRun.scanned, lastRun.today.month, lastRun.today.day)

\* On 12-25 the job met a birthday that does not parse and then a record
\* born that day, which it attempted.
C10_Witness ==
    /\ BirthdayScan
    /\ Len(lastRun.scanned) = 2
    /\ lastRun.scanned[1].birthday = <<"1","9","7","5",".","1","2",".","2","x">>
    /\ BornOn(lastRun.scanned[2], lastRun.today.month, lastRun.today.day)
    /\ lastRun.attempted = <<lastRun.scanned[2].email>>

\* On 12-25 the delivery to the first record born that day failed and the
\* second was attempted and delivered.
C10_WitnessFailedDelivery ==
    /\ BirthdayScan
    /\ Len(lastRun.attempted) = 2
    /\ lastRun.delivered = <<lastRun.attempted[2]>>

\* The addresses of the rows of a table that have one, in table order.
AddressedEmails(rows) ==
    LET HasAddress(s) == s.email \notin {"", NoValue}
    IN  EmailsOf(SelectSeq(rows, HasAddress))

LunarRun == lastRun.job = "lunar_new_year_check"

\* The resolver answered the most recent run of the lunar job with the
\* first day of the first lunar month.
ResolvedNewYear ==
    /\ lastRun.error # "resolver"
    /\ Solar2Lunar(lastRun.today) = [month |-> 1, day |-> 1]

C11_WitnessOtherDay ==
    /\ LunarRun
    /\ lastRun.today = Date(2026, 2, 18)
    /\ lastRun.outcome = "not_today"
    /\ lastRun.attempted = <<>>
    /\ Len(staff) = 2

\* The resolver raised in the most recent run of the lunar job.
ResolverFailed == LunarRun /\ lastRun.error = "resolver"

\* C12: when the resolver raises, the lunar job catches the exception in
\* its body and makes no send; the run ends like any other: the job is Idle
\* again, the registry, the scheduler and the other jobs are as they were.
C12_ResolverFailureCaught ==
    /\ [](ResolverFailed =>
            /\ lastRun.outcome = "error"
            /\ lastRun.recipients = <<>>
            /\ lastRun.attempted = <<>>
            /\ lastRun.delivered = <<>>)
    /\ [][(status["lunar_new_year_check"] = "Running" /\ ResolverFailed')
            => /\ status' = [status EXCEPT !["lunar_new_year_check"] = "Idle"]
               /\ registry' = registry
               /\ started' = started]_vars

\* On lunar new year 2026 the resolver raised; the staff table holds two
\* addressed records, nothing was sent, and the job is Idle and registered.
C12_Witness ==
    /\ ResolverFailed
    /\ lastRun.today = Date(2026, 2, 17)
    /\ Len(AddressedEmails(staff)) = 2
    /\ status["lunar_new_year_check"] = "Idle"
    /\ "lunar_new_year_check" \in registry
    /\ started = "running"

FixedDateJobs == { "christmas", "new_year" }

\* C13: a run of christmas or new_year whose staff query succeeded read the
\* staff table as it is at the fire, and attempted one send per staff record
\* with a non-empty email, in table order, and no other: neither the date of
\* birth, nor the state of the mail service, nor an earlier failed send
\* takes a record out.
C13_HolidayRecipients ==
    (lastRun.job \in FixedDateJobs /\ lastRun.outcome = "ok") =>
        /\ lastRun.scanned = staff
        /\ lastRun.attempted = AddressedEmails(staff)
        /\ EmailsOf(lastRun.recipients) = lastRun.attempted
        /\ \A i, k \in 1..Len(lastRun.attempted) :
              lastRun.attempted[i] = lastRun.attempted[k] => i = k

\* On 2026-01-01 new_year attempted the two addressed records of the table,
\* the first send failing.
C13_Witness ==
    /\ lastRun.job = "new_year"
    /\ lastRun.outcome = "ok"
    /\ lastRun.today = Date(2026, 1, 1)
    /\ Len(lastRun.attempted) = 2
    /\ lastRun.delivered = <<lastRun.attempted[2]>>

\* christmas read a record with an address and one without, and attempted
\* the one with an address although the mail service is not configured.
C13_WitnessUnaddressed ==
    /\ lastRun.job = "christmas"
    /\ lastRun.outcome = "ok"
    /\ ~service
    /\ Len(staff) = 2
    /\ Len(lastRun.attempted) = 1

\* Job j is running on a day on which its previous run, the most recent
\* run of all, already went through its pass.
SecondFire(j) ==
    /\ status[j] = "Running"
    /\ lastRun.job = j
    /\ lastRun.today = Today
    /\ lastRun.outcome = "ok"

\* C14: a job fired again on the day of a completed pass, the store
\* unchanged, makes the same pass again: the same recipients, each
\* attempted once; and no run of a body changes the store, which holds no
\* record of a pass.
C14_SecondFireSendsAgain ==
    [][\A j \in JobIds :
          (status[j] = "Running" /\ status'[j] = "Idle") =>
              /\ staff' = staff /\ reports' = reports /\ service' = service
              /\ (SecondFire(j) /\ lastRun'.outcome = "ok") =>
                    /\ lastRun'.scanned = lastRun.scanned
                    /\ lastRun'.recipients = lastRun.recipients
                    /\ lastRun'.attempted = lastRun.attempted
                    /\ lastRun'.attempted = EmailsOf(lastRun'.recipients)]_vars

\* The monthly job is running for the second time on 2026-01-01, after a
\* pass over two recipients.
C14_Witness ==
    /\ SecondFire("monthly_report")
    /\ Today = Date(2026, 1, 1)
    /\ Len(lastRun.attempted) = 2
    /\ lastRun.month = Key_2025_12

\* C15: with the mail service not initialised no send succeeds: every
\* send_email call returns False for its recipient.  A broadcast over K
\* recipients still goes through all K, ends normally and logs 0 of K;
\* the run that ends leaves the job Idle and registered and the scheduler
\* as it was.
C15_NoServiceAllFail ==
    /\ []((~service /\ lastRun.job # NoValue) =>
            /\ lastRun.delivered = <<>>
            /\ lastRun.outcome # "raised"
            /\ LoopEntered =>
                  /\ lastRun.outcome = "ok"
                  /\ lastRun.attempted = EmailsOf(lastRun.recipients)
                  /\ lastRun.summary = <<0, Len(lastRun.recipients)>>)
    /\ [][\A j \in JobIds :
            (~service /\ status[j] = "Running" /\ status'[j] # "Running") =>
                /\ status' = [status EXCEPT ![j] = "Idle"]
                /\ registry' = registry
                /\ started' = started]_vars

\* With the mail service not initialised christmas went over two
\* recipients and logged 0 of 2.
C15_Witness ==
    /\ ~service
    /\ lastRun.job = "christmas"
    /\ lastRun.outcome = "ok"
    /\ Len(lastRun.attempted) = 2
    /\ lastRun.delivered = <<>>
    /\ lastRun.summary = <<0, 2>>
    /\ status["christmas"] = "Idle"
    /\ "christmas" \in registry

\* The steps of job j of the state machine Idle -> Due -> Running -> Idle;
\* a failed run is a Running -> Idle step whose run record is an error.
Fires(j) ==
    /\ status[j] = "Idle" /\ status'[j] = "Due"
    /\ j \in registry
    /\ Matches(TriggerOf(j), now')

Starts(j) == status[j] = "Due" /\ status'[j] = "Running"

Ends(j) ==
    /\ status[j] = "Running" /\ status'[j] = "Idle"
    /\ lastRun'.job = j
    /\ lastRun'.outcome \in {"ok", "no_report", "not_today", "error"}
    /\ started' = started
    /\ registry' = registry

\* The submitted run of j is cancelled by shutdown before its body began.
Cancelled(j) ==
    /\ status[j] = "Due" /\ status'[j] = "Idle"
    /\ started = "running" /\ started' = "stopped"

JobStates == \A j \in JobIds : status[j] \in {"Idle", "Due", "Running"}

\* C16 as stated: the state of a job changes only along Idle -> Due ->
\* Running -> Idle, a run that fails included, and a running job returns
\* to Idle.
C16_OnlyCycle ==
    /\ [][\A j \in JobIds :
            status'[j] # status[j] => (Fires(j) \/ Starts(j) \/ Ends(j))]_vars
    /\ \A j \in JobIds : (status[j] = "Running") ~> (status[j] = "Idle")

\* C16 amended: the state of a job changes only along Idle -> Due ->
\* Running -> Idle, or from Due back to Idle when shutdown cancels a
\* submitted run whose body has not begun; a body begins only from Due, a
\* running job returns to Idle whether its run failed or not, and the end
\* of a run leaves the registry and the scheduler as they were.
C16_CycleOrCancelled ==
    /\ []JobStates
    /\ [][\A j \in JobIds :
            status'[j] # status[j] =>
                (Fires(j) \/ Starts(j) \/ Ends(j) \/ Cancelled(j))]_vars
    /\ \A j \in JobIds : (status[j] = "Running") ~> (status[j] = "Idle")

\* The birthday job went Idle -> Due -> Running -> Idle with a failed run,
\* and every job is still registered.
C16_Witness ==
    /\ lastRun.job = "birthday_check"
    /\ lastRun.outcome = "error"
    /\ now.hour = 8
    /\ \A j \in JobIds : status[j] = "Idle"
    /\ registry = JobIds
    /\ started = "running"

\* Shutdown has cancelled a submitted run: the scheduler is stopped at
\* 08:00, no job is Due, and the birthday job, due at 08:00, has not run
\* since the lunar job ran at 00:00.
C16_WitnessCancelled ==
    /\ started = "stopped"
    /\ now.hour = 8
    /\ \A j \in JobIds : status[j] = "Idle"
    /\ lastRun.job = "lunar_new_year_check"
    /\ lastRun.today = Today

\* C17: the registry is empty until start, holds exactly the five jobs of
\* start (one entry per id) from start to shutdown, and changes only in the
\* step of start and in the step of shutdown: the end of a run, failed or
\* not, and the passing of time leave it alone.
C17_RegistryFixed ==
    /\ [](started = "created" => registry = {})
    /\ [](started = "running" =>
            /\ registry = { "monthly_report", "birthday_check", "christmas",
                            "new_year", "lunar_new_year_check" }
            /\ Cardinality(registry) = 5)
    /\ [][registry' # registry =>
            \/ started = "created" /\ started' = "running"
            \/ started = "running" /\ started' = "stopped"]_vars
    /\ [][\A j \in JobIds :
            (status[j] = "Running" /\ status'[j] # "Running") => registry' = registry]_vars

\* The yearly new_year job has run and failed, and the registry still
\* holds the five jobs.
C17_Witness ==
    /\ started = "running"
    /\ lastRun.job = "new_year"
    /\ lastRun.outcome = "error"
    /\ "new_year" \in registry
    /\ Cardinality(registry) = 5

RunningJobs == { j \in JobIds : status[j] = "Running" }

\* C18: at most one body runs at any time; a job due at the same instant
\* as the running one stays Due, its body not begun, until the running
\* body has ended, and the sends of a run are made within the one step of
\* its body.
C18_OneBodyAtATime ==
    /\ [](Cardinality(RunningJobs) <= 1)
    /\ [][\A j \in JobIds :
            (status[j] # "Running" /\ status'[j] = "Running") =>
                /\ RunningJobs = {}
                /\ lastRun' = lastRun]_vars
    /\ [][lastRun' # lastRun =>
            \E j \in JobIds : RunningJobs = {j} /\ RunningJobs' = {} /\ lastRun'.job = j]_vars

\* 08:00 on 12-25: the birthday job is running and christmas, due at the
\* same instant, waits.
C18_Witness ==
    /\ now = At(Date(2025, 12, 25), 8)
    /\ status["birthday_check"] = "Running"
    /\ status["christmas"] = "Due"

\* 00:00 on 01-01: new_year has run to its end while the lunar job, due
\* at the same instant, waited, and the lunar job is now running.
C18_WitnessNewYear ==
    /\ now = At(Date(2026, 1, 1), 0)
    /\ lastRun.job = "new_year"
    /\ lastRun.today = Date(2026, 1, 1)
    /\ status["new_year"] = "Idle"
    /\ status["lunar_new_year_check"] = "Running"

\* C19 as stated: whatever a body is waiting for, a registered job whose
\* fire instant the clock reaches becomes Due, so that no fire is lost.
C19_NoFireLost ==
    [][\A j \in JobIds :
          (started = "running" /\ j \in registry /\ now' # now /\ Matches(TriggerOf(j), now'))
              => status'[j] = "Due"]_vars

\* 09:00 on 2026-01-01 has passed while the birthday job, begun at 08:00,
\* was still running: the monthly report of that day was not submitted.
C19_LostFire ==
    /\ now = At(Date(2026, 1, 1), 9)
    /\ status["birthday_check"] = "Running"
    /\ status["monthly_report"] = "Idle"
    /\ lastRun.job # "monthly_report"

\* After shutdown the job store is empty, no run is submitted and no body
\* is running, and nothing changes that: no job becomes Due or Running.
AfterShutdownQuiet ==
    /\ [](started = "stopped" =>
            /\ registry = {}
            /\ \A j \in JobIds : status[j] = "Idle")
    /\ [][started = "stopped" => status' = status]_vars

\* C20 as stated: shutdown does not wait for a body in flight: whenever
\* the scheduler is running, a body running or not, shutdown can be
\* carried out.
C20_ShutdownNeverWaits ==
    [](started = "running" => ENABLED Shutdown)

\* The rule of each job, as the claim words it.
FireRule(j, t) ==
    CASE j = "monthly_report" -> t.day = 1 /\ t.hour = 9 /\ t.minute = 0
      [] j = "birthday_check" -> t.hour = 8 /\ t.minute = 0
      [] j = "christmas" -> t.month = 12 /\ t.day = 25 /\ t.hour = 8 /\ t.minute = 0
      [] j = "new_year" -> t.month = 1 /\ t.day = 1 /\ t.hour = 0 /\ t.minute = 0
      [] j = "lunar_new_year_check" -> t.hour = 0 /\ t.minute = 0

\* t is later than s.
Later(t, s) ==
    LET Stamp(x) == <<x.year, x.month, x.day, x.hour, x.minute>>
        Before(a, b, k) == \E i \in 1..k : a[i] < b[i] /\ \A m \in 1..(i - 1) : a[m] = b[m]
    IN  Before(Stamp(s), Stamp(t), 5)

\* C21: a run of a job is submitted only by the clock reaching a new
\* instant that matches the rule of the job, once for that instant; a
\* submitted or running job is at an instant of its rule, and the clock
\* never comes back to an instant it has left.
C21_FiresOnRule ==
    /\ [](\A j \in JobIds : status[j] \in {"Due", "Running"} => FireRule(j, now))
    /\ [](lastRun.job # NoValue =>
            FireRule(lastRun.job, At(lastRun.today, TriggerOf(lastRun.job).hour)))
    /\ [][\A j \in JobIds :
            (status[j] # "Due" /\ status'[j] = "Due") => (Later(now', now) /\ FireRule(j, now'))]_vars
    /\ [][now' # now => Later(now', now)]_vars
    /\ [][\A j \in JobIds :
            (status[j] # "Running" /\ status'[j] = "Running") => (status[j] = "Due" /\ now' = now)]_vars

\* 09:00 on 2026-02-01: the monthly report is running, the birthday job of
\* that day has run at 08:00.
C21_Witness ==
    /\ now = At(Date(2026, 2, 1), 9)
    /\ status["monthly_report"] = "Running"
    /\ lastRun.job = "birthday_check"
    /\ lastRun.today = Date(2026, 2, 1)

StoreWrites == { "create_report", "update_report", "sync_staff" }

\* C22: the step that ends a job run, whatever the run did, leaves the
\* Staff and MonthlyReport tables as they were; the tables change only in
\* the step of a request that writes the Store, which is no step of a job.
C22_JobsReadOnly ==
    /\ [][\A j \in JobIds :
            (status[j] = "Running" /\ status'[j] # "Running")
                => (staff' = staff /\ reports' = reports)]_vars
    /\ [][(staff' # staff \/ reports' # reports) =>
            /\ response'.op \in StoreWrites
            /\ response'.ok
            /\ lastRun' = lastRun
            /\ status' = status]_vars

\* The table written by sync_staff is still in place after a christmas
\* run over it in which one send of two failed.
C22_Witness ==
    /\ response.op = "sync_staff"
    /\ response.ok
    /\ staff = response.data
    /\ lastRun.job = "christmas"
    /\ lastRun.scanned = staff
    /\ Len(lastRun.attempted) = 2
    /\ Len(lastRun.delivered) = 1
    /\ reports = {Report(Key_2026_01)}

\* C23: a run that reads the staff reads the Staff table as it is when its
\* body runs, whatever an earlier run has read: its recipients are rows of
\* that one table, in table order, none from an older table, and the
\* table does not change while the body runs.
C23_RecipientsFromStoreAtFire ==
    /\ [][\A j \in JobIds :
            (status[j] = "Running" /\ status'[j] # "Running" /\ lastRun'.outcome = "ok") =>
                /\ lastRun'.scanned = staff
                /\ staff' = staff
                /\ \A i \in 1..Len(lastRun'.recipients) :
                      \E k \in 1..Len(staff) : lastRun'.recipients[i] = StaffData(staff[k])
                /\ j \in FixedDateJobs => lastRun'.attempted = AddressedEmails(staff)]_vars
    /\ [](\A j \in JobIds : status[j] = "Running" => ~ENABLED sync_staff)

\* christmas is running over the table a sync_staff has just committed;
\* the birthday job of the same morning has read the table it replaced.
C23_Witness ==
    /\ status["christmas"] = "Running"
    /\ response.op = "sync_staff"
    /\ response.ok
    /\ staff = response.data
    /\ lastRun.job = "birthday_check"
    /\ lastRun.outcome = "ok"
    /\ lastRun.scanned # staff
    /\ AddressedEmails(lastRun.scanned) # <<>>
    /\ AddressedEmails(staff) # <<>>

\* C24 as stated: whatever path the body took, a session it opened is
\* closed when it returns.
C24_SessionClosed ==
    lastRun.job # NoValue => session # "open"

\* The normal path and the early return of the monthly job close the
\* session; a run that opened none leaves none.
C24_ClosedUnlessRaised ==
    lastRun.job # NoValue =>
        /\ lastRun.outcome \in {"ok", "no_report"} => session = "closed"
        /\ lastRun.outcome = "not_today" => session = "none"
        /\ session = "open" => lastRun.outcome = "error"

\* The name of a weekday of datetime (Monday is 0) in the header.
WeekdayName(w) == <<"Mon", "Tue", "Wed", "Thu", "Fri", "Sat", "Sun">>[w + 1]

Rendered == response.op = "generate_calendar_html"

\* The cells of the rendered grid that show day d.
CellsOf(d) == { i \in 1..Len(response.data) : response.data[i] = d }

\* C25 as stated: every day of the month is in the grid once, under the
\* header of its weekday.
C25_DaysUnderTheirWeekday ==
    Rendered =>
        \A d \in 1..DaysInMonth(now.year, now.month) :
            /\ Cardinality(CellsOf(d)) = 1
            /\ \A i \in CellsOf(d) :
                  CalendarHeader[((i - 1) % 7) + 1] = WeekdayName(Weekday(now.year, now.month, d))

\* What the grid does: every day is in it once, in the column of its
\* weekday counted from Monday, that is under the header of the day before.
C25_DaysOneColumnLeft ==
    Rendered =>
        \A d \in 1..DaysInMonth(now.year, now.month) :
            /\ Cardinality(CellsOf(d)) = 1
            /\ \A i \in CellsOf(d) :
                  /\ (i - 1) % 7 = Weekday(now.year, now.month, d)
                  /\ CalendarHeader[((i - 1) % 7) + 1]
                        = WeekdayName((Weekday(now.year, now.month, d) + 6) % 7)

\* January 2026 rendered: the 1st, a Thursday, is the fourth cell, under
\* the header of Wednesday.
C25_January2026 ==
    /\ Rendered
    /\ now.year = 2026 /\ now.month = 1
    /\ response.data[4] = 1
    /\ Weekday(2026, 1, 1) = 3
    /\ CalendarHeader[4] = "Wed"

\* No two reports of the Store have the same month key.
OnePerMonth == \A r1, r2 \in reports : r1.month = r2.month => r1 = r2

\* The request carries a token that is signed, not expired, and names an
\* active admin user of the table us.
ValidToken(request, us) ==
    /\ request.present
    /\ request.signed
    /\ ~request.expired
    /\ request.sub # NoValue
    /\ \E u \in us : u.username = request.sub /\ u.is_active

\* C26: whatever requests were served, no two reports have the same month
\* key; create_report by an administrator for a month that has a report
\* answers 400 and leaves the reports as they were.
C26_OneReportPerMonth ==
    /\ []OnePerMonth
    /\ [][(create_report /\ ValidToken(response'.request, users)
             /\ FindReport(reports, response'.data) # {})
            => (response'.code = HTTP_400 /\ reports' = reports)]_vars

\* A create_report for 2026-01 was refused with 400 after an update_report
\* had rewritten the report of that month, which is still the only one.
C26_Witness ==
    /\ response.op = "create_report"
    /\ response.code = HTTP_400
    /\ response.data = Key_2026_01
    /\ reports = {[month |-> Key_2026_01, quotes |-> "r", focus |-> "f"]}

\* C27: update_report leaves every other report as it was and keeps, in the
\* report of the month, every field whose value in the request is null; a
\* field that is not null gets the value of the request when the answer is
\* 200, and any other answer, 404 for a month without a report, changes
\* nothing.
C27_UpdateFrame ==
    [][update_report =>
        LET request == response'.request
            month == response'.data
        IN  /\ \A r \in reports : r.month # month => r \in reports'
            /\ \A r \in reports' : r.month # month => r \in reports
            /\ \A r \in FindReport(reports, month) :
                  \E u \in reports' :
                     /\ FindReport(reports', month) = {u}
                     /\ request.quotes = NoValue => u.quotes = r.quotes
                     /\ request.focus = NoValue => u.focus = r.focus
                     /\ (response'.code = HTTP_200 /\ request.quotes # NoValue)
                            => u.quotes = request.quotes
                     /\ (response'.code = HTTP_200 /\ request.focus # NoValue)
                            => u.focus = request.focus
            /\ response'.code # HTTP_200 => reports' = reports
            /\ (ValidToken(request, users) /\ FindReport(reports, month) = {})
                  => response'.code = HTTP_404]_vars

\* An update of 2026-01 that supplied quotes and no focus was answered 200:
\* the quotes are those of the request, the focus is the seeded one.
C27_Witness ==
    /\ response.op = "update_report"
    /\ response.code = HTTP_200
    /\ response.data = Key_2026_01
    /\ response.request.quotes = "r"
    /\ response.request.focus = NoValue
    /\ reports = {[month |-> Key_2026_01, quotes |-> "r", focus |-> "f"]}

\* C28: the reports change only in a step that answers a request whose
\* token is valid for an active admin user; create_report and update_report
\* answer any other request with 401 and leave the reports as they were.
C28_WritesNeedActiveAdmin ==
    /\ [][reports' # reports => ValidToken(response'.request, users)]_vars
    /\ [][((create_report \/ update_report) /\ ~ValidToken(response'.request, users))
            => (response'.code = HTTP_401 /\ reports' = reports)]_vars

\* A well-signed, unexpired token of the deactivated administrator was
\* answered 401 by create_report for a month without a report.
C28_Witness ==
    /\ response.op = "create_report"
    /\ response.code = HTTP_401
    /\ response.data = Key_2025_12
    /\ response.request.present /\ response.request.signed /\ ~response.request.expired
    /\ response.request.sub = "admin"
    /\ users = {AdminUser("admin", FALSE)}
    /\ reports = {Report(Key_2026_01)}

\* C29: a sync_staff that answers success leaves the Staff table equal to
\* the loaded list; one that answers an error leaves the table as it was.
C29_SyncAtomic ==
    [][sync_staff =>
        /\ response'.ok => staff' = response'.data
        /\ ~response'.ok => staff' = staff]_vars

\* A sync_staff that had loaded two entries failed, and the table still
\* holds the one row it held before.
C29_Witness ==
    /\ response.op = "sync_staff"
    /\ ~response.ok
    /\ Len(response.data) = 2
    /\ staff = RowsOf({1})

\* The rows of the table with an email whose birth month and day are those
\* of the date.
BornTodayWithEmail(rows, today) ==
    { i \in 1..Len(rows) : Truthy(rows[i].email) /\ BornOn(rows[i], today.month, today.day) }

\* C30: send_birthday_cards_now hands to send_birthday_card the rows the
\* scheduled job hands to it for the same table and date, in the same
\* order: the rows with an email born today, each once.
C30_SameAsScheduledJob ==
    [][(send_birthday_cards_now /\ response'.ok) =>
        LET scheduled == check_and_send_birthday_cards(Today, staff, service, TRUE, {}, {})
        IN  /\ response'.data = EmailsOf(scheduled.recipients)
            /\ response'.data = scheduled.attempted
            /\ Len(response'.data) = Cardinality(BornTodayWithEmail(staff, Today))
            /\ \A i \in BornTodayWithEmail(staff, Today) :
                  \E k \in 1..Len(response'.data) : response'.data[k] = staff[i].email]_vars

\* On 2025-12-25 the endpoint sent one card over a table of two rows born
\* that day, one of them without an email.
C30_Witness ==
    /\ response.op = "send_birthday_cards_now"
    /\ response.ok
    /\ Today = Date(2025, 12, 25)
    /\ staff = RowsOf({1, 3})
    /\ response.data = <<"amy@x">>

====
